---------------------------- MODULE Spec2Model ----------------------------
(***************************************************************************)
(* State-machine model of src/api/main.py: the RFID access-control         *)
(* backend (allowlist table, scan ledger table, in-memory last-scan cache, *)
(* the lock around the ledger insert, and the three JSON handlers).        *)
(*                                                                         *)
(* Concurrency model: the one documented in the file's header (lines       *)
(* 18-21): handlers run on several worker threads that share one SQLite    *)
(* connection; one model step is one statement that reads or writes shared *)
(* state.  INSERT and the commit that follows it on the shared connection  *)
(* are one step: readers use the same connection and see the row at once.  *)
(*                                                                         *)
(* A string is a sequence of one-character strings.                        *)
(***************************************************************************)
EXTENDS Integers, Sequences, FiniteSets, TLC

\* ------------------------------------------------------------------ bounds

\* Number of worker threads serving requests.
NumProcs == 2
\* Number of /api/scan requests accepted over a behaviour.
MaxScans == 2
\* Number of times the wall clock moves to the next second.
MaxTicks == 1

\* ------------------------------------------------------- program constants

\* uid[:10], len(uid) < 10
UidLen == 10
\* recent(limit: int = 10)
DefaultLimit == 10

Procs == 1..NumProcs

\* ------------------------------------------------------------- raw inputs

TagLower == <<"a","b","1","2","c","d","3","4","e","f">>
TagUpper == <<"A","B","1","2","C","D","3","4","E","F">>
TagSpaced == <<"A","B","1","2","C","D","3","4","E"," ","F","X","X">>
TagNonHex == <<"z","z","z","z","z","z","z","z","z","z">>

\* The uid values a client sends: missing/empty, short, canonical, lower
\* case padded with white space, over-long, with white space inside at
\* position 10, that value as stored (trailing space), and not hexadecimal.
RawInputs ==
    { <<>>,
      <<"1","2","3","4","5">>,
      TagUpper,
      <<" ">> \o TagLower \o <<"\t">>,
      TagUpper \o <<"E","X","T","R","A">>,
      TagSpaced,
      SubSeq(TagSpaced, 1, 10),
      TagNonHex }

\* The uid values sent while requests overlap: one too short, and two that
\* need every normalization step (trim, upper-case, cut) to become one tag.
OverlapInputs ==
    { <<"1","2","3","4","5">>,
      <<" ">> \o TagLower \o <<"\t">>,
      TagUpper \o <<"E","X","T","R","A">> }

\* The ?limit= values a client sends (SQLite: a negative LIMIT is no limit).
Limits == {-1, 0, 1, 2, DefaultLimit}

\* -------------------------------------------------------- string functions

Whitespace == {" ", "\t", "\n", "\r"}

UpperMap ==
    ("a" :> "A") @@ ("b" :> "B") @@ ("c" :> "C") @@ ("d" :> "D") @@
    ("e" :> "E") @@ ("f" :> "F") @@ ("x" :> "X") @@ ("z" :> "Z")

SetMin(S) == CHOOSE x \in S : \A y \in S : x <= y
SetMax(S) == CHOOSE x \in S : \A y \in S : x >= y

\* str.strip(): leading and trailing white space removed, inner kept.
Strip(s) ==
    LET keep == {i \in 1..Len(s) : s[i] \notin Whitespace}
    IN  IF keep = {} THEN <<>> ELSE SubSeq(s, SetMin(keep), SetMax(keep))

\* str.upper()
Upper(s) ==
    [i \in 1..Len(s) |-> IF s[i] \in DOMAIN UpperMap THEN UpperMap[s[i]] ELSE s[i]]

\* s[:10]
Truncate(s) == SubSeq(s, 1, IF Len(s) < UidLen THEN Len(s) ELSE UidLen)

\* Fault: strip() left out.
AllowNormalize_NoStrip(raw) == Upper(raw)

\* add_allow, line 76: str(item.get("uid", "")).strip().upper()
AllowNormalize(raw) == Upper(Strip(raw))

\* Fault: the length test off by one.
AllowRejects_OffByOne(uid) == Len(uid) <= UidLen

\* Fault: the length check is dropped.
AllowRejects_Never(uid) == FALSE

\* add_allow, line 77: len(uid) < 10
AllowRejects(uid) == Len(uid) < UidLen

\* Fault: the input cut to 10 characters before it is trimmed.
ScanNormalize_CutFirst(raw) == Upper(Strip(Truncate(raw)))

\* scan, line 91: str(item.get("uid", "")).strip().upper()[:10]
ScanNormalize(raw) == Truncate(Upper(Strip(raw)))

\* ------------------------------------------------------------------ state

VARIABLES
    allowed,   \* table allowed(uid TEXT PRIMARY KEY): its rows, in rowid order
    scans,     \* table scans(ts, uid, ok): its rows, in rowid order
    last,      \* _last, the in-memory last-scan cache
    lock,      \* _lock: 0 when free, else the thread holding it
    now,       \* int(time.time()), a non-decreasing wall clock
    pc,        \* each thread's position
    req,       \* each thread's request and handler locals
    resp,      \* each thread's last response
    nScans,    \* number of /api/scan requests received so far
    registered,\* history: the uids a 200 response of /api/allow has returned
    follows    \* history, one flag per ledger row: the row's request arrived
               \* after the evaluation of the row before it had returned

vars == <<allowed, scans, last, lock, now, pc, req, resp, nScans,
          registered, follows>>

NoReq ==
    [op |-> "none", raw |-> <<>>, uid |-> <<>>, ok |-> 0, t |-> 0,
     limit |-> 0, row |-> 0, known |-> FALSE, prev |-> 0]

NoResp == [status |-> 0, ok |-> FALSE, stored_uid |-> <<>>, rows |-> <<>>]

\* A thread takes a request when it is not serving one.
Free(p) == pc[p] = "idle"

AllowedSet == {allowed[i] : i \in 1..Len(allowed)}

Init ==
    /\ allowed = <<>>
    /\ scans = <<>>
    /\ last = [ts |-> 0, uid |-> <<>>, ok |-> 0]
    /\ lock = 0
    /\ now = 1
    /\ pc = [p \in Procs |-> "idle"]
    /\ req = [p \in Procs |-> NoReq]
    /\ resp = [p \in Procs |-> NoResp]
    /\ nScans = 0
    /\ registered = {}
    /\ follows = <<>>

\* ------------------------------------------------------------- the clock

Tick ==
    /\ now < 1 + MaxTicks
    /\ now' = now + 1
    /\ UNCHANGED <<allowed, scans, last, lock, pc, req, resp, nScans,
                   registered, follows>>

\* ------------------------------------------------- POST /api/allow (add_allow)

\* Fault: a plain INSERT into a table without the primary key.
InsertAlways(rows, uid) == Append(rows, uid)

\* Fault: the table rewritten to hold the new uid only.
InsertReplacing(rows, uid) == <<uid>>

\* INSERT OR IGNORE INTO allowed(uid) VALUES(?): uid is the primary key,
\* compared byte for byte.
InsertOrIgnore(rows, uid) ==
    IF \E i \in 1..Len(rows) : rows[i] = uid THEN rows ELSE Append(rows, uid)

\* Lines 76-81: the normalized uid is too short; 400 and nothing stored.
Allow_Reject(p, raw) ==
    /\ Free(p)
    /\ AllowRejects(AllowNormalize(raw))
    /\ pc' = [pc EXCEPT ![p] = "done"]
    /\ req' = [req EXCEPT ![p] =
                  [NoReq EXCEPT !.op = "allow", !.raw = raw,
                                !.uid = AllowNormalize(raw)]]
    /\ resp' = [resp EXCEPT ![p] = [NoResp EXCEPT !.status = 400]]
    /\ UNCHANGED <<allowed, scans, last, lock, now, nScans, registered, follows>>

\* Fault: line 82 left out, the uid stored at its full length.
Allow_Accept_NoCut(p, raw) ==
    /\ Free(p)
    /\ ~AllowRejects(AllowNormalize(raw))
    /\ pc' = [pc EXCEPT ![p] = "allow_insert"]
    /\ req' = [req EXCEPT ![p] =
                  [NoReq EXCEPT !.op = "allow", !.raw = raw,
                                !.uid = AllowNormalize(raw)]]
    /\ UNCHANGED <<allowed, scans, last, lock, now, resp, nScans, registered, follows>>

\* Lines 76-82: the normalized uid is long enough and is cut to 10 characters.
Allow_Accept(p, raw) ==
    /\ Free(p)
    /\ ~AllowRejects(AllowNormalize(raw))
    /\ pc' = [pc EXCEPT ![p] = "allow_insert"]
    /\ req' = [req EXCEPT ![p] =
                  [NoReq EXCEPT !.op = "allow", !.raw = raw,
                                !.uid = Truncate(AllowNormalize(raw))]]
    /\ UNCHANGED <<allowed, scans, last, lock, now, resp, nScans, registered, follows>>

\* Fault: the allowlist insert is wrapped in the scan lock.
Allow_Insert_UnderLock(p) ==
    /\ pc[p] = "allow_insert"
    /\ lock = 0
    /\ allowed' = InsertOrIgnore(allowed, req[p].uid)
    /\ pc' = [pc EXCEPT ![p] = "done"]
    /\ resp' = [resp EXCEPT ![p] =
                   [NoResp EXCEPT !.status = 200, !.ok = TRUE,
                                  !.stored_uid = req[p].uid]]
    /\ registered' = registered \cup {req[p].uid}
    /\ UNCHANGED <<scans, last, lock, now, req, nScans, follows>>

\* Lines 83-85: the insert, the commit and the 200 response.
Allow_Insert(p) ==
    /\ pc[p] = "allow_insert"
    /\ allowed' = InsertOrIgnore(allowed, req[p].uid)
    /\ pc' = [pc EXCEPT ![p] = "done"]
    /\ resp' = [resp EXCEPT ![p] =
                   [NoResp EXCEPT !.status = 200, !.ok = TRUE,
                                  !.stored_uid = req[p].uid]]
    /\ registered' = registered \cup {req[p].uid}
    /\ UNCHANGED <<scans, last, lock, now, req, nScans, follows>>

\* ------------------------------------------------------ POST /api/scan (scan)

\* Fault: the lookup answers 1 whatever the allowlist holds.
SelectAllowed_Always(rows, uid) == 1

\* SELECT 1 FROM allowed WHERE uid=? ... fetchone(): 1 if a row matches.
SelectAllowed(rows, uid) ==
    IF \E i \in 1..Len(rows) : rows[i] = uid THEN 1 ELSE 0

\* The row _insert_scan writes and the value it puts in the cache.
ScanRow(t, uid, ok) == [ts |-> t, uid |-> uid, ok |-> ok]

\* The ledger rows whose evaluation has not returned yet.
RowsInFlight ==
    {req[p].row : p \in {q \in Procs : pc[q] \in {"insert_update", "scan_return"}}}

\* The newest ledger row, when its evaluation has returned; else 0.
NewestReturned ==
    IF Len(scans) > 0 /\ Len(scans) \notin RowsInFlight THEN Len(scans) ELSE 0

\* Lines 89-94: the request arrives, its uid is normalized and looked up.
Scan_Select(p, raw) ==
    /\ Free(p)
    /\ nScans < MaxScans
    /\ nScans' = nScans + 1
    /\ pc' = [pc EXCEPT ![p] = "insert_time"]
    /\ req' = [req EXCEPT ![p] =
                  [NoReq EXCEPT
                      !.op = "scan", !.raw = raw, !.uid = ScanNormalize(raw),
                      !.ok = SelectAllowed(allowed, ScanNormalize(raw)),
                      !.known = (ScanNormalize(raw) \in registered),
                      !.prev = NewestReturned]]
    /\ UNCHANGED <<allowed, scans, last, lock, now, resp, registered, follows>>

\* Line 63: t = int(time.time()), read before the lock is taken.
Insert_Time(p) ==
    /\ pc[p] = "insert_time"
    /\ req' = [req EXCEPT ![p].t = now]
    /\ pc' = [pc EXCEPT ![p] = "insert_lock"]
    /\ UNCHANGED <<allowed, scans, last, lock, now, resp, nScans, registered, follows>>

\* Fault: the insert entered without waiting for the lock.
Insert_Acquire_NoWait(p) ==
    /\ pc[p] = "insert_lock"
    /\ lock' = p
    /\ pc' = [pc EXCEPT ![p] = "insert_exec"]
    /\ UNCHANGED <<allowed, scans, last, now, req, resp, nScans, registered, follows>>

\* Line 64: with _lock (enter).
Insert_Acquire(p) ==
    /\ pc[p] = "insert_lock"
    /\ lock = 0
    /\ lock' = p
    /\ pc' = [pc EXCEPT ![p] = "insert_exec"]
    /\ UNCHANGED <<allowed, scans, last, now, req, resp, nScans, registered, follows>>

\* Fault: only accepted scans are written to the ledger.
Insert_Execute_AcceptedOnly(p) ==
    /\ pc[p] = "insert_exec"
    /\ scans' = IF req[p].ok = 1
                THEN Append(scans, ScanRow(req[p].t, req[p].uid, req[p].ok))
                ELSE scans
    /\ req' = [req EXCEPT ![p].row = Len(scans')]
    /\ follows' = IF req[p].ok = 1
                  THEN Append(follows, Len(scans) > 0 /\ req[p].prev = Len(scans))
                  ELSE follows
    /\ pc' = [pc EXCEPT ![p] = "insert_update"]
    /\ UNCHANGED <<allowed, last, lock, now, resp, nScans, registered>>

\* Fault: the insert rotates the table, keeping only the newest row.
Insert_Execute_Rotating(p) ==
    /\ pc[p] = "insert_exec"
    /\ scans' = <<ScanRow(req[p].t, req[p].uid, req[p].ok)>>
    /\ req' = [req EXCEPT ![p].row = 1]
    /\ follows' = <<FALSE>>
    /\ pc' = [pc EXCEPT ![p] = "insert_update"]
    /\ UNCHANGED <<allowed, last, lock, now, resp, nScans, registered>>

\* Fault: the lock is released right after the insert, before the cache
\* update.
Insert_Execute_ReleaseEarly(p) ==
    /\ pc[p] = "insert_exec"
    /\ scans' = Append(scans, ScanRow(req[p].t, req[p].uid, req[p].ok))
    /\ req' = [req EXCEPT ![p].row = Len(scans) + 1]
    /\ follows' = Append(follows, Len(scans) > 0 /\ req[p].prev = Len(scans))
    /\ lock' = 0
    /\ pc' = [pc EXCEPT ![p] = "insert_update"]
    /\ UNCHANGED <<allowed, last, now, resp, nScans, registered>>

\* Lines 65-69: INSERT INTO scans(ts,uid,ok) and commit.
Insert_Execute(p) ==
    /\ pc[p] = "insert_exec"
    /\ scans' = Append(scans, ScanRow(req[p].t, req[p].uid, req[p].ok))
    /\ req' = [req EXCEPT ![p].row = Len(scans) + 1]
    /\ follows' = Append(follows, Len(scans) > 0 /\ req[p].prev = Len(scans))
    /\ pc' = [pc EXCEPT ![p] = "insert_update"]
    /\ UNCHANGED <<allowed, last, lock, now, resp, nScans, registered>>

\* Fault: the cache is updated but the lock is never released.
Insert_Update_KeepLock(p) ==
    /\ pc[p] = "insert_update"
    /\ last' = ScanRow(req[p].t, req[p].uid, req[p].ok)
    /\ lock' = lock
    /\ pc' = [pc EXCEPT ![p] = "scan_return"]
    /\ UNCHANGED <<allowed, scans, now, req, resp, nScans, registered, follows>>

\* Line 70 and the end of the with block: _last.update(...), lock released.
Insert_Update(p) ==
    /\ pc[p] = "insert_update"
    /\ last' = ScanRow(req[p].t, req[p].uid, req[p].ok)
    /\ lock' = 0
    /\ pc' = [pc EXCEPT ![p] = "scan_return"]
    /\ UNCHANGED <<allowed, scans, now, req, resp, nScans, registered, follows>>

\* Line 96: return {"ok": bool(ok)}.
Scan_Return(p) ==
    /\ pc[p] = "scan_return"
    /\ resp' = [resp EXCEPT ![p] =
                   [NoResp EXCEPT !.status = 200, !.ok = (req[p].ok # 0)]]
    /\ pc' = [pc EXCEPT ![p] = "done"]
    /\ UNCHANGED <<allowed, scans, last, lock, now, req, nScans, registered, follows>>

\* --------------------------------------------------- GET /api/recent (recent)

\* Line 106: {"ts": ts, "uid": uid, "ok": bool(ok)}
RowView(r) == [ts |-> r.ts, uid |-> r.uid, ok |-> (r.ok # 0)]

Perms(n) == {f \in [1..n -> 1..n] : \A i, j \in 1..n : f[i] = f[j] => i = j}

\* Fault: ORDER BY ts ASC.
OrderByTsAsc(rows) ==
    { [i \in 1..Len(rows) |-> rows[f[i]]] :
        f \in {g \in Perms(Len(rows)) :
                  \A i, j \in 1..Len(rows) :
                      i < j => rows[g[i]].ts <= rows[g[j]].ts} }

\* ORDER BY ts DESC: the rows in an order of non-increasing ts.  SQLite
\* leaves the order of rows with equal ts undefined.
OrderByTsDesc(rows) ==
    { [i \in 1..Len(rows) |-> rows[f[i]]] :
        f \in {g \in Perms(Len(rows)) :
                  \A i, j \in 1..Len(rows) :
                      i < j => rows[g[i]].ts >= rows[g[j]].ts} }

\* Fault: the limit keeps the tail of the ordered rows instead of the head.
ApplyLimit_Tail(rows, limit) ==
    IF limit < 0 \/ limit >= Len(rows)
    THEN rows
    ELSE SubSeq(rows, Len(rows) - limit + 1, Len(rows))

\* LIMIT ?: the first limit rows; a negative limit is no limit.
ApplyLimit(rows, limit) ==
    IF limit < 0 \/ limit >= Len(rows) THEN rows ELSE SubSeq(rows, 1, limit)

\* Lines 102-106: what the query may return for a ledger and a limit.
RecentResults(rows, limit) ==
    { [i \in 1..Len(ApplyLimit(s, limit)) |-> RowView(ApplyLimit(s, limit)[i])] :
        s \in OrderByTsDesc(rows) }

\* Lines 100-106: the whole handler is one SELECT.
Recent(p, limit) ==
    /\ Free(p)
    /\ \E rows \in RecentResults(scans, limit) :
          resp' = [resp EXCEPT ![p] = [NoResp EXCEPT !.status = 200, !.rows = rows]]
    /\ req' = [req EXCEPT ![p] = [NoReq EXCEPT !.op = "recent", !.limit = limit]]
    /\ pc' = [pc EXCEPT ![p] = "done"]
    /\ UNCHANGED <<allowed, scans, last, lock, now, nScans, registered, follows>>

\* The response has been sent; the thread goes back to the pool.
Retire(p) ==
    /\ pc[p] = "done"
    /\ pc' = [pc EXCEPT ![p] = "idle"]
    /\ req' = [req EXCEPT ![p] = NoReq]
    /\ resp' = [resp EXCEPT ![p] = NoResp]
    /\ UNCHANGED <<allowed, scans, last, lock, now, nScans, registered, follows>>

\* ------------------------------------------------------------ specification

\* Requests overlap freely on the worker threads.
Next ==
    \/ Tick
    \/ \E p \in Procs, raw \in OverlapInputs : Allow_Reject(p, raw)
    \/ \E p \in Procs, raw \in OverlapInputs : Allow_Accept(p, raw)
    \/ \E p \in Procs : Allow_Insert(p)
    \/ \E p \in Procs, raw \in OverlapInputs : Scan_Select(p, raw)
    \/ \E p \in Procs : Insert_Time(p)
    \/ \E p \in Procs : Insert_Acquire(p)
    \/ \E p \in Procs : Insert_Execute(p)
    \/ \E p \in Procs : Insert_Update(p)
    \/ \E p \in Procs : Scan_Return(p)
    \/ \E p \in Procs, limit \in Limits : Recent(p, limit)
    \/ \E p \in Procs : Retire(p)

Spec == Init /\ [][Next]_vars

\* The next statement of the request thread p is serving.
Step(p) ==
    \/ Allow_Insert(p)
    \/ Insert_Time(p)
    \/ Insert_Acquire(p)
    \/ Insert_Execute(p)
    \/ Insert_Update(p)
    \/ Scan_Return(p)

\* A worker thread that can run its next statement is eventually scheduled.
\* Nothing obliges clients to send requests or the clock to advance.
Fairness == \A p \in Procs : WF_vars(Step(p))

SpecFair == Init /\ [][Next]_vars /\ Fairness

\* Requests arrive one at a time (scans at human speed) and are served by
\* the first thread, with any raw input.
NextSeq ==
    \/ Tick
    \/ \E raw \in RawInputs : Allow_Reject(1, raw)
    \/ \E raw \in RawInputs : Allow_Accept(1, raw)
    \/ Allow_Insert(1)
    \/ \E raw \in RawInputs : Scan_Select(1, raw)
    \/ Insert_Time(1)
    \/ Insert_Acquire(1)
    \/ Insert_Execute(1)
    \/ Insert_Update(1)
    \/ Scan_Return(1)
    \/ \E limit \in Limits : Recent(1, limit)
    \/ Retire(1)

SpecSeq == Init /\ [][NextSeq]_vars

\* ------------------------------------------------------------------ claims

\* The identifier the documentation calls normalized: the input trimmed,
\* upper-cased, and cut to its first 10 characters.
Canon(raw) ==
    LET u == Upper(Strip(raw))
    IN  SubSeq(u, 1, IF Len(u) < UidLen THEN Len(u) ELSE UidLen)

ScanOf(p) == req[p].op = "scan"
AllowOf(p) == req[p].op = "allow"
RecentOf(p) == req[p].op = "recent"

\* The scan of thread p has written its ledger row.
Inserted(p) == ScanOf(p) /\ pc[p] \in {"insert_update", "scan_return", "done"}

\* Thread p is inside _insert_scan.
InRecordScan(p) ==
    pc[p] \in {"insert_time", "insert_lock", "insert_exec", "insert_update"}

LedgerUids == {scans[i].uid : i \in 1..Len(scans)}

\* C1 -- /api/scan answers true exactly when the normalized identifier is in
\* the allowlist at the moment of the lookup, and the ledger row it appends
\* carries that normalized identifier and the answered outcome.
C1_LookupStep ==
    \A p \in Procs :
        (pc[p] = "idle" /\ pc'[p] = "insert_time") =>
            ((req'[p].ok = 1) <=> (Canon(req'[p].raw) \in AllowedSet))

C1_RowAndAnswer ==
    \A p \in Procs :
        /\ Inserted(p) =>
              /\ req[p].row \in 1..Len(scans)
              /\ scans[req[p].row].uid = Canon(req[p].raw)
              /\ scans[req[p].row].ok = req[p].ok
        /\ (ScanOf(p) /\ pc[p] = "done") =>
              /\ resp[p].status = 200
              /\ resp[p].ok = (req[p].ok = 1)
              /\ resp[p].ok = (scans[req[p].row].ok = 1)

C1_ScanAnswersLookup == [][C1_LookupStep]_vars /\ []C1_RowAndAnswer

C1_Witness ==
    \E p, q \in Procs :
        /\ ScanOf(p) /\ pc[p] = "done" /\ resp[p].ok
        /\ req[p].raw # Canon(req[p].raw)
        /\ ScanOf(q) /\ pc[q] = "done" /\ ~resp[q].ok

\* C2 -- every scan evaluation appends exactly one ledger row: the ledger
\* holds one row per scan request that has passed its insert (so N rows once
\* N requests have completed), and only a scan's insert changes its length.
C2_Pending == {p \in Procs : pc[p] \in {"insert_time", "insert_lock", "insert_exec"}}

C2_OnlyInsertGrows ==
    Len(scans') # Len(scans) =>
        /\ Len(scans') = Len(scans) + 1
        /\ \E p \in Procs : pc[p] = "insert_exec" /\ pc'[p] = "insert_update"

C2_OneRowPerScan ==
    /\ [](Len(scans) = nScans - Cardinality(C2_Pending))
    /\ [](\A p, q \in Procs : (Inserted(p) /\ Inserted(q) /\ p # q) => req[p].row # req[q].row)
    /\ [][C2_OnlyInsertGrows]_vars

\* Two overlapping scans (their rows are out of timestamp order), one refused
\* and one accepted, have both returned.
C2_Witness ==
    /\ nScans = 2 /\ Len(scans) = 2
    /\ \A p \in Procs : ScanOf(p) /\ pc[p] = "done"
    /\ scans[1].ts > scans[2].ts
    /\ scans[1].ok # scans[2].ok

\* C3 -- whenever no scan is between its insert and its cache update (so in
\* particular once N overlapping scans have all completed), the cache equals,
\* field for field, the ledger row appended last.
C3_CacheIsLastAppended ==
    (lock = 0 /\ Len(scans) > 0) => last = scans[Len(scans)]

C3_Witness ==
    /\ Len(scans) = 2
    /\ \A p \in Procs : ScanOf(p) /\ pc[p] = "done"
    /\ scans[1] # scans[2]
    /\ scans[1].ts > scans[2].ts
    /\ last = scans[2]

\* C4 -- with no scan inside RecordScan and a non-empty ledger, the cached
\* record is one a reader can get as the most recent from /api/recent (a row
\* with the largest timestamp of the ledger).
C4_CacheIsMostRecent ==
    ((\A p \in Procs : ~InRecordScan(p)) /\ Len(scans) > 0) =>
        \E res \in RecentResults(scans, 1) : res[1] = RowView(last)

\* C5 -- after a scan X has returned and then a scan Y is evaluated,
\* /api/recent?limit=2 lists Y before X, whatever the two clock readings.
C5_YBeforeX ==
    (Len(scans) = 2 /\ follows[2] /\ NewestReturned = 2) =>
        \A res \in RecentResults(scans, 2) :
            res = <<RowView(scans[2]), RowView(scans[1])>>

\* C5, amended -- Y is listed before X when Y's timestamp is strictly later
\* than X's (two scans of the same second come in an unspecified order).
C5_YBeforeXWhenLater ==
    \A j \in 2..Len(scans) :
        (follows[j] /\ scans[j].ts > scans[j-1].ts) =>
            \A limit \in Limits : \A res \in RecentResults(scans, limit) :
                /\ (Len(scans) = 2 /\ limit = 2) =>
                       res = <<RowView(scans[2]), RowView(scans[1])>>
                /\ \A a, b \in 1..Len(res) :
                       (res[a] = RowView(scans[j]) /\ res[b] = RowView(scans[j-1]))
                           => a < b

C5_Witness ==
    /\ Len(scans) = 2 /\ follows[2] /\ scans[2].ts > scans[1].ts
    /\ scans[1].uid # scans[2].uid
    /\ \E p \in Procs :
          /\ RecentOf(p) /\ pc[p] = "done" /\ req[p].limit = 2
          /\ resp[p].rows = <<RowView(scans[2]), RowView(scans[1])>>

\* C6 -- registering an identifier twice (same input, or two inputs with the
\* same normal form; one after the other or overlapping) succeeds both times
\* with the same stored identifier, the allowlist holds it once, and the
\* second insert leaves the allowlist as it was.
C6_NoDuplicateRow ==
    \A i, j \in 1..Len(allowed) : allowed[i] = allowed[j] => i = j

C6_SameStored ==
    \A p, q \in Procs :
        ( /\ AllowOf(p) /\ pc[p] = "done" /\ resp[p].status = 200
          /\ AllowOf(q) /\ pc[q] = "done" /\ resp[q].status = 200
          /\ Canon(req[p].raw) = Canon(req[q].raw) ) =>
            /\ resp[p].ok /\ resp[q].ok
            /\ resp[p].stored_uid = resp[q].stored_uid
            /\ Cardinality({i \in 1..Len(allowed) : allowed[i] = resp[p].stored_uid}) = 1

C6_SecondInsertStep ==
    \A p \in Procs :
        (pc[p] = "allow_insert" /\ pc'[p] = "done" /\ req[p].uid \in AllowedSet) =>
            /\ allowed' = allowed
            /\ resp'[p].status = 200

C6_RegisterIdempotent ==
    []C6_NoDuplicateRow /\ []C6_SameStored /\ [][C6_SecondInsertStep]_vars

C6_Witness ==
    /\ Len(allowed) = 1
    /\ \A p \in Procs : AllowOf(p) /\ pc[p] = "done" /\ resp[p].status = 200
    /\ \E p, q \in Procs : req[p].raw # req[q].raw
    /\ \A p \in Procs : resp[p].stored_uid = allowed[1]

\* C7 -- /api/allow answers 400 exactly when the trimmed, upper-cased input
\* has fewer than 10 characters, and a refused registration changes neither
\* the allowlist, nor the ledger, nor the cache.
C7_RejectIffShort ==
    \A p \in Procs :
        (AllowOf(p) /\ pc[p] = "done") =>
            /\ resp[p].status \in {200, 400}
            /\ (resp[p].status = 400) <=> (Len(Upper(Strip(req[p].raw))) < 10)

C7_RejectStep ==
    \A p \in Procs :
        (pc[p] = "idle" /\ pc'[p] = "done" /\ resp'[p].status = 400) =>
            UNCHANGED <<allowed, scans, last>>

C7_RegisterRejects == []C7_RejectIffShort /\ [][C7_RejectStep]_vars

C7_Witness ==
    /\ Len(allowed) > 0 /\ Len(scans) > 0
    /\ \E p \in Procs :
          /\ AllowOf(p) /\ pc[p] = "done" /\ resp[p].status = 400
          /\ Len(req[p].raw) = 10

\* C8 -- a successful /api/allow stores and returns exactly the first 10
\* characters of the trimmed, upper-cased input, and adds nothing else.
C8_StoredIsCanon ==
    \A p \in Procs :
        (AllowOf(p) /\ pc[p] = "done" /\ resp[p].status = 200) =>
            /\ resp[p].stored_uid = Canon(req[p].raw)
            /\ resp[p].stored_uid \in AllowedSet

C8_InsertStep ==
    AllowedSet' # AllowedSet =>
        \E p \in Procs :
            /\ pc[p] = "allow_insert" /\ pc'[p] = "done"
            /\ AllowedSet' = AllowedSet \cup {Canon(req[p].raw)}

C8_RegisterStoresCanon == []C8_StoredIsCanon /\ [][C8_InsertStep]_vars

C8_Witness ==
    \E p \in Procs :
        /\ AllowOf(p) /\ pc[p] = "done" /\ resp[p].status = 200
        /\ Len(req[p].raw) > 10
        /\ req[p].raw[1] \in Whitespace
        /\ Upper(req[p].raw) # req[p].raw
        /\ AllowedSet = {resp[p].stored_uid}

HexDigits ==
    {"0","1","2","3","4","5","6","7","8","9","A","B","C","D","E","F"}

\* C9 -- every identifier in the allowlist or in the ledger is canonical:
\* exactly 10 characters, each an upper-case hexadecimal digit.
IsCanonicalUid(uid) == Len(uid) = 10 /\ \A i \in 1..Len(uid) : uid[i] \in HexDigits

C9_AllCanonical == \A uid \in AllowedSet \cup LedgerUids : IsCanonicalUid(uid)

\* C9, amended -- every allowlist identifier has exactly 10 characters and
\* every ledger identifier at most 10; none holds a lower-case letter or
\* starts with white space.  (They need not be hexadecimal.)
C9_Normalized(uid) ==
    /\ Upper(uid) = uid
    /\ Len(uid) > 0 => uid[1] \notin Whitespace

C9_LengthAndCase ==
    /\ \A uid \in AllowedSet : Len(uid) = 10 /\ C9_Normalized(uid)
    /\ \A uid \in LedgerUids : Len(uid) <= 10 /\ C9_Normalized(uid)

C9_Witness ==
    /\ \E uid \in AllowedSet : ~IsCanonicalUid(uid)
    /\ \E uid \in LedgerUids : Len(uid) = 0
    /\ \E uid \in LedgerUids : Len(uid) = 10 /\ ~IsCanonicalUid(uid)

\* C10 -- the allowlist only grows, so once /api/allow has returned an
\* identifier, every scan that arrives later with that normal form is
\* answered true and recorded with outcome true.
C10_RowsKept ==
    /\ Len(allowed') >= Len(allowed)
    /\ \A i \in 1..Len(allowed) : allowed'[i] = allowed[i]

C10_KnownAccepted ==
    \A p \in Procs :
        (ScanOf(p) /\ req[p].known) =>
            /\ req[p].ok = 1
            /\ Inserted(p) => scans[req[p].row].ok = 1
            /\ pc[p] = "done" => resp[p].ok

C10_AllowlistOnlyGrows ==
    /\ [][C10_RowsKept]_vars
    /\ [](registered \subseteq AllowedSet)
    /\ []C10_KnownAccepted

C10_Witness ==
    /\ Len(allowed) >= 2
    /\ \E p \in Procs :
          /\ ScanOf(p) /\ pc[p] = "done" /\ req[p].known /\ resp[p].ok
          /\ req[p].uid = allowed[1]

\* C11 -- the ledger is append-only: every step of every operation leaves
\* each row already in the ledger in place and unchanged, and the ledger
\* never gets shorter.
C11_LedgerStep ==
    /\ Len(scans') >= Len(scans)
    /\ \A i \in 1..Len(scans) : scans'[i] = scans[i]

C11_LedgerAppendOnly == [][C11_LedgerStep]_vars

\* A second row has been appended behind a first one, while an allowlist
\* insert and a listing have also run.
C11_Witness ==
    /\ Len(scans) = 2
    /\ Len(allowed) > 0
    /\ \E p \in Procs : Inserted(p) /\ req[p].row = 2 /\ pc[p] = "insert_update"
    /\ \E q \in Procs : RecentOf(q) /\ pc[q] = "done"

\* C12 -- GET /api/recent with limit 0 answers an empty list, and for every
\* integer limit the handler takes, whatever the ledger holds, the list it
\* answers has at most limit entries.
C12_LimitBound ==
    \A p \in Procs :
        (RecentOf(p) /\ pc[p] = "done") =>
            /\ resp[p].status = 200
            /\ req[p].limit = 0 => resp[p].rows = <<>>
            /\ Len(resp[p].rows) <= req[p].limit

\* C13 -- for a limit in the domain of RecentScans (limit >= 0), the query
\* of /api/recent returns min(limit, ledger length) rows, in order of
\* non-increasing timestamp; each returned row is a distinct ledger row, and
\* no ledger row left out has a timestamp strictly greater than a returned
\* one.
C13_MostRecent(rows, limit) ==
    /\ Len(rows) = IF limit < Len(scans) THEN limit ELSE Len(scans)
    /\ \A i, j \in 1..Len(rows) : i < j => rows[i].ts >= rows[j].ts
    /\ \E f \in [1..Len(rows) -> 1..Len(scans)] :
          /\ \A i, j \in 1..Len(rows) : f[i] = f[j] => i = j
          /\ \A i \in 1..Len(rows) :
                rows[i] = [ts |-> scans[f[i]].ts, uid |-> scans[f[i]].uid,
                           ok |-> (scans[f[i]].ok = 1)]
          /\ \A k \in 1..Len(scans) :
                (\A i \in 1..Len(rows) : f[i] # k) =>
                    \A i \in 1..Len(rows) : scans[k].ts <= rows[i].ts

C13_RecentStep ==
    \A p \in Procs :
        (pc[p] = "idle" /\ pc'[p] = "done" /\ req'[p].op = "recent"
            /\ req'[p].limit >= 0) =>
            C13_MostRecent(resp'[p].rows, req'[p].limit)

C13_RecentScans == [][C13_RecentStep]_vars

\* A listing with limit 1 has answered the newer of two rows, which is the
\* one appended first.
C13_Witness ==
    /\ Len(scans) = 2 /\ scans[1].ts > scans[2].ts
    /\ \E p \in Procs :
          /\ RecentOf(p) /\ pc[p] = "done" /\ req[p].limit = 1
          /\ Len(resp[p].rows) = 1 /\ resp[p].rows[1].ts = scans[1].ts

\* C14 -- /api/scan never answers with an error, and an input whose
\* normalized form has fewer than 10 characters (the empty input included)
\* matches no allowlist row in any reachable state: its scan is answered
\* ok = false with status 200 and its ledger row carries outcome 0.
C14_ShortInputs == {raw \in RawInputs : Len(Canon(raw)) < UidLen}

C14_ShortNeverMatches ==
    /\ \A raw \in C14_ShortInputs : Canon(raw) \notin AllowedSet
    /\ \A p \in Procs :
          ScanOf(p) =>
              /\ pc[p] = "done" => resp[p].status = 200
              /\ req[p].raw \in C14_ShortInputs =>
                    /\ req[p].ok = 0
                    /\ Inserted(p) =>
                          /\ req[p].row \in 1..Len(scans)
                          /\ scans[req[p].row].uid = Canon(req[p].raw)
                          /\ scans[req[p].row].ok = 0
                    /\ pc[p] = "done" => ~resp[p].ok

\* A scan whose input normalizes to 9 characters has been refused and
\* recorded while the allowlist holds an identifier that starts with those
\* 9 characters; an empty input has been recorded as well.
C14_Witness ==
    /\ \E p \in Procs :
          /\ ScanOf(p) /\ pc[p] = "done" /\ ~resp[p].ok
          /\ Len(req[p].uid) = 9
          /\ \E uid \in AllowedSet : SubSeq(uid, 1, 9) = req[p].uid
    /\ \E i \in 1..Len(scans) : scans[i].uid = <<>> /\ scans[i].ok = 0

\* C15 -- no operation blocks for ever: when every worker thread that can
\* run is eventually scheduled, each request a thread has started is
\* eventually answered, a scan waiting for the lock included, and the lock,
\* once taken, is eventually released.
C15_EveryRequestResolves ==
    /\ \A p \in Procs : (pc[p] # "idle") ~> (pc[p] = "done")
    /\ (lock # 0) ~> (lock = 0)

\* A scan waits for the lock while the other scan is between its insert and
\* its cache update.
C15_Witness ==
    \E p, q \in Procs :
        /\ p # q
        /\ pc[p] = "insert_lock" /\ lock = q /\ pc[q] = "insert_update"

\* C16 -- at most one scan is inside the region the lock protects, and it
\* holds the lock; while a scan is between its insert and its cache update
\* its row is still the newest ledger row and the cache still holds what it
\* held when the scan entered (the row before, or the initial value), so no
\* other scan has inserted or written the cache in between.
C16_InRegion == {p \in Procs : pc[p] \in {"insert_exec", "insert_update"}}

C16_MutualExclusion ==
    /\ Cardinality(C16_InRegion) <= 1
    /\ \A p \in C16_InRegion : lock = p
    /\ lock # 0 => lock \in C16_InRegion
    /\ \A p \in Procs :
          pc[p] = "insert_update" =>
              /\ req[p].row = Len(scans)
              /\ last = IF Len(scans) = 1
                        THEN [ts |-> 0, uid |-> <<>>, ok |-> 0]
                        ELSE scans[Len(scans) - 1]

\* The second scan is between its insert and its cache update, the cache
\* still shows the first scan, and a listing runs meanwhile on the other
\* thread.
C16_Witness ==
    \E p, q \in Procs :
        /\ p # q
        /\ pc[p] = "insert_update" /\ lock = p
        /\ Len(scans) = 2 /\ last = scans[1] /\ scans[1] # scans[2]
        /\ RecentOf(q) /\ pc[q] = "done" /\ Len(resp[q].rows) = 2

\* C17 -- frame conditions: a step of /api/allow leaves the ledger, the
\* cache and the lock as they are, and its insert can run whoever holds the
\* lock; a step of /api/scan leaves the allowlist as it is; /api/recent
\* leaves the allowlist, the ledger and the cache as they are.
C17_StepOf(p, op) == pc'[p] # pc[p] /\ (req[p].op = op \/ req'[p].op = op)

C17_FrameStep ==
    \A p \in Procs :
        /\ C17_StepOf(p, "allow") => UNCHANGED <<scans, last, lock>>
        /\ C17_StepOf(p, "scan") => UNCHANGED allowed
        /\ C17_StepOf(p, "recent") => UNCHANGED <<allowed, scans, last, lock>>

C17_AllowNeverWaits ==
    \A p \in Procs : pc[p] = "allow_insert" => ENABLED Allow_Insert(p)

C17_Frame == [][C17_FrameStep]_vars /\ []C17_AllowNeverWaits

\* An allowlist insert has completed while the other thread holds the lock
\* between its insert and its cache update.
C17_Witness ==
    \E p, q \in Procs :
        /\ AllowOf(p) /\ pc[p] = "done" /\ resp[p].ok
        /\ allowed = <<req[p].uid>>
        /\ lock = q /\ pc[q] = "insert_update" /\ req[q].ok = 0
        /\ req[q].uid = req[p].uid

\* C18 -- with a clock that never goes back, the ledger is in timestamp
\* order in append order under every interleaving: a row appended later
\* never carries a smaller timestamp than a row appended earlier.
C18_TimestampOrdered ==
    \A i, j \in 1..Len(scans) : i < j => scans[i].ts <= scans[j].ts

\* C19 -- round trip: whenever /api/allow has answered with a stored_uid, a
\* later /api/scan given exactly that stored_uid is answered ok = true;
\* equally, normalizing a stored identifier gives the same identifier back.
C19_RoundTrip ==
    /\ \A uid \in registered : Canon(uid) = uid
    /\ \A p \in Procs :
          (ScanOf(p) /\ req[p].raw \in registered) =>
              /\ req[p].ok = 1
              /\ pc[p] = "done" => resp[p].ok

\* C20 -- every ledger row with outcome true carries an identifier that is
\* in the allowlist, and so does the cache when its outcome is true.
C20_AcceptedAreAllowed ==
    /\ \A i \in 1..Len(scans) : scans[i].ok # 0 => scans[i].uid \in AllowedSet
    /\ last.ok # 0 => last.uid \in AllowedSet

\* The ledger holds a refused and an accepted row for the same identifier
\* (it was registered between the two scans) and the cache shows the
\* accepted one.
C20_Witness ==
    /\ Len(scans) = 2
    /\ scans[1].ok = 0 /\ scans[2].ok = 1 /\ scans[1].uid = scans[2].uid
    /\ last.ok = 1 /\ last.uid = scans[2].uid

=============================================================================
